---- MODULE Spec2Model ----
(***************************************************************************)
(* OMNI-VIBE (src/main.py): a Streamlit page.  Streamlit executes the      *)
(* script from its first line to its last once per page load and once per  *)
(* widget interaction ("script run").  Widget values (the uploaded file,   *)
(* the target-vibe text) are kept by Streamlit between runs; everything    *)
(* else (model, img, prompt, response, the rendered elements) is rebuilt   *)
(* by each run.  st.button returns True only in the run its click caused.  *)
(*                                                                         *)
(* Strings are TLA+ strings; f-string interpolation is \o, so prompts and  *)
(* banners are computed character by character as the code computes them. *)
(***************************************************************************)
EXTENDS Integers, Sequences, FiniteSets, TLC

VARIABLES
    secrets,        \* TRUE iff st.secrets holds GOOGLE_API_KEY (deployment configuration)
    uploaded_file,  \* value of the st.file_uploader widget: None or a file
    target_vibe,    \* value of the st.text_input widget
    button,         \* what st.button("Execute Analysis") returns in the current run
    pc,             \* position of the current script run
    model,          \* None, or the model name once genai.GenerativeModel was constructed
    form,           \* TRUE once lines 36-42 evaluated the widgets in the current run
    img,            \* None, or the PIL image opened at line 47
    prompt,         \* None, or the prompt composed at line 51
    requests,       \* the generate_content calls issued by the current run, in order
    response,       \* what generate_content returned in the current run
    e,              \* None, or str(e) of the exception caught at line 58
    page,           \* the elements the current run rendered, in order
    prev,           \* how the previous script run ended (history)
    earlier         \* how the earlier script runs of the session ended (history)

vars == <<secrets, uploaded_file, target_vibe, button, pc, model, form, img,
          prompt, requests, response, e, page, prev, earlier>>

None == "None"

----------------------------------------------------------------------------
(* Inputs of the environment: what a user can upload and type, and what    *)
(* the remote service can answer.                                          *)

\* Files a user can pass through the uploader (it filters on the extension only).
Files == {"sketch.png", "cut_off.jpg", "notes_renamed.png"}

\* "image":        a well-formed image;
\* "truncated":    an image header followed by damaged data (Image.open reads the
\*                 header only, so it accepts the file);
\* "unidentified": bytes no PIL decoder recognises.
Kind(f) ==
    CASE f = "sketch.png"        -> "image"
      [] f = "cut_off.jpg"       -> "truncated"
      [] f = "notes_renamed.png" -> "unidentified"
      [] OTHER                   -> "absent"

\* Texts a user can leave in the target-vibe field (the field may be cleared).
Vibes == {"Industrial Luxury", "Cozy Minimal", ""}

\* Answers of the remote service to one generate_content call: a response with
\* text parts, a response without any part (a blocked candidate), or an exception.
ServiceReplies(i) ==
    IF Kind(i) = "image"
    THEN { [raises |-> FALSE, parts |-> <<"OK">>, msg |-> None],
           [raises |-> FALSE, parts |-> <<"# Concept\n", "1. [SPATIAL ANALYSIS]: ...">>, msg |-> None],
           [raises |-> FALSE, parts |-> << >>, msg |-> None],
           [raises |-> TRUE,  parts |-> << >>, msg |-> "quota exceeded"],
           [raises |-> TRUE,  parts |-> << >>, msg |-> "503 service unavailable"] }
    ELSE { [raises |-> TRUE,  parts |-> << >>, msg |-> "400 unable to process input image"] }

----------------------------------------------------------------------------
(* Pure helpers of the script.                                             *)

RECURSIVE Join(_)
Join(parts) == IF parts = << >> THEN "" ELSE Head(parts) \o Join(Tail(parts))

\* response.text: the text parts joined; raises ValueError when there is no part.
NoPartMessage == "response.text requires the response to contain a valid Part"
ResponseText(r) ==
    IF r.parts = << >>
    THEN [raises |-> TRUE,  text |-> "", msg |-> NoPartMessage]
    ELSE [raises |-> FALSE, text |-> Join(r.parts), msg |-> None]

NoResponse == [bound |-> FALSE, parts |-> << >>]

\* Image.open(uploaded_file), line 47.
ImageOpen_Lazy(f) == [ok |-> TRUE, img |-> f, msg |-> None]
ImageOpen(f) ==
    IF Kind(f) \in {"image", "truncated"}
    THEN [ok |-> TRUE,  img |-> f,    msg |-> None]
    ELSE [ok |-> FALSE, img |-> None, msg |-> "cannot identify image file"]

\* The f-string of line 51.
Prompt_FixedVibe(v) ==
    "Analyze this image. Target Vibe: Industrial Luxury. Action: Initial Brand Concept."
Prompt(v) ==
    "Analyze this image. Target Vibe: " \o v \o ". Action: Initial Brand Concept."

\* The f-string of line 59.
ErrorBanner_NoMessage(m) == "Sistem Error"
ErrorBanner(m) == "Sistem Error: " \o m

\* Rendered elements: the st.* call, the source line that made it, its text.
Markdown_Truncated(line, body) ==
    [fn |-> "markdown", at |-> line, body |-> SubSeq(body, 1, 1)]
Markdown(line, body) == [fn |-> "markdown", at |-> line, body |-> body]
Error(line, body)    == [fn |-> "error",    at |-> line, body |-> body]
Warning(line, body)  == [fn |-> "warning",  at |-> line, body |-> body]
Title(line, body)    == [fn |-> "title",    at |-> line, body |-> body]

MissingCredentialText == "API Key tidak ditemukan! Masukkan di Secrets Streamlit."
MissingInputText      == "Silakan unggah gambar terlebih dahulu."
ModelName             == "gemini-3-flash-preview"

\* Lines 9-14: where the run goes after the credential block.
ConfigureNext_NoStop(hasKey) == "model"
ConfigureNext(hasKey) == IF hasKey THEN "model" ELSE "stopped"

\* Lines 42-43 and 60: the branch taken after the widgets were evaluated.
FormNext_NoFileCheck(b, f) == IF b THEN "open" ELSE "skip"
FormNext_NoButtonCheck(b, f) == IF f # None THEN "open" ELSE "warn"
FormNext(b, f) ==
    IF b THEN (IF f # None THEN "open" ELSE "warn") ELSE "skip"

\* Lines 58-59: where the run goes after the except clause rendered the banner.
ExceptNext_Crash == "crashed"
ExceptNext_Retry == "call"
ExceptNext == "done"

----------------------------------------------------------------------------
(* Observations of a run.                                                  *)

Elements(fnName) == { i \in 1..Len(page) : page[i].fn = fnName }
At(line)         == { i \in 1..Len(page) : page[i].at = line }

ResultShown  == At(56) # {}
FailureShown == At(59) # {}
WarningShown == At(61) # {}
HaltShown    == At(13) # {}

\* How the run in progress ended; recorded in prev when the next run starts.
Outcome ==
    CASE pc = "stopped"                 -> "halted"
      [] pc = "done" /\ ~button         -> "idle"
      [] pc = "done" /\ WarningShown    -> "warning"
      [] pc = "done" /\ ResultShown /\ ~FailureShown -> "success"
      [] pc = "done" /\ FailureShown /\ requests # << >> -> "remote_failure"
      [] pc = "done" /\ FailureShown /\ requests = << >> -> "local_failure"
      [] OTHER                          -> "running"

----------------------------------------------------------------------------
(* The state machine.                                                      *)

Init ==
    /\ secrets \in BOOLEAN
    /\ uploaded_file = None
    /\ target_vibe = "Industrial Luxury"
    /\ button = FALSE
    /\ pc = "config"
    /\ model = None
    /\ form = FALSE
    /\ img = None
    /\ prompt = None
    /\ requests = << >>
    /\ response = NoResponse
    /\ e = None
    /\ page = << >>
    /\ prev = "none"
    /\ earlier = {}

\* Lines 9-14: read the credential; without it render the error and st.stop().
Configure ==
    /\ pc = "config"
    /\ page' = IF secrets THEN page ELSE Append(page, Error(13, MissingCredentialText))
    /\ pc' = ConfigureNext(secrets)
    /\ UNCHANGED <<secrets, uploaded_file, target_vibe, button, model, form, img,
                   prompt, requests, response, e, prev, earlier>>

\* Lines 30-33: construct the model object.
ModelInit ==
    /\ pc = "model"
    /\ model' = ModelName
    /\ pc' = "form"
    /\ UNCHANGED <<secrets, uploaded_file, target_vibe, button, form, img,
                   prompt, requests, response, e, page, prev, earlier>>

\* Lines 36-43 and 60-61: title, widgets, the button test and the file test.
Form ==
    /\ pc = "form"
    /\ form' = TRUE
    /\ LET shown  == Append(page, Title(37, "OMNI-VIBE: Creative Agent"))
           branch == FormNext(button, uploaded_file)
       IN  /\ page' = IF branch = "warn"
                      THEN Append(shown, Warning(61, MissingInputText))
                      ELSE shown
           /\ pc' = IF branch = "open" THEN "open" ELSE "done"
    /\ UNCHANGED <<secrets, uploaded_file, target_vibe, button, model, img,
                   prompt, requests, response, e, prev, earlier>>

\* Line 47, with the except clause of lines 58-59 when Image.open raises.
OpenImage ==
    /\ pc = "open"
    /\ LET r == ImageOpen(uploaded_file)
       IN  IF r.ok
           THEN /\ img' = r.img
                /\ pc' = "call"
                /\ UNCHANGED <<e, page>>
           ELSE /\ e' = r.msg
                /\ page' = Append(page, Error(59, ErrorBanner(r.msg)))
                /\ pc' = ExceptNext
                /\ UNCHANGED img
    /\ UNCHANGED <<secrets, uploaded_file, target_vibe, button, model, form,
                   prompt, requests, response, prev, earlier>>

\* Lines 51-53, with the except clause of lines 58-59 when the call raises.
GenerateContent ==
    /\ pc = "call"
    /\ prompt' = Prompt(target_vibe)
    /\ requests' = Append(requests, [prompt |-> prompt', img |-> img])
    /\ \E reply \in ServiceReplies(img) :
          IF reply.raises
          THEN /\ e' = reply.msg
               /\ page' = Append(page, Error(59, ErrorBanner(reply.msg)))
               /\ pc' = ExceptNext
               /\ UNCHANGED response
          ELSE /\ response' = [bound |-> TRUE, parts |-> reply.parts]
               /\ pc' = "render"
               /\ UNCHANGED <<e, page>>
    /\ UNCHANGED <<secrets, uploaded_file, target_vibe, button, model, form,
                   img, prev, earlier>>

\* Lines 55-56, with the except clause of lines 58-59 when response.text raises.
RenderResponse ==
    /\ pc = "render"
    /\ LET ruled == Append(page, Markdown(55, "---"))
           t     == ResponseText(response)
       IN  IF t.raises
           THEN /\ e' = t.msg
                /\ page' = Append(ruled, Error(59, ErrorBanner(t.msg)))
                /\ pc' = ExceptNext
           ELSE /\ page' = Append(ruled, Markdown(56, t.text))
                /\ pc' = "done"
                /\ UNCHANGED e
    /\ UNCHANGED <<secrets, uploaded_file, target_vibe, button, model, form,
                   img, prompt, requests, response, prev, earlier>>

\* A new script run starts: Streamlit keeps the widget values and nothing else.
StartRun(file, vibe, clicked) ==
    /\ uploaded_file' = file
    /\ target_vibe' = vibe
    /\ button' = clicked
    /\ pc' = "config"
    /\ model' = None
    /\ form' = FALSE
    /\ img' = None
    /\ prompt' = None
    /\ requests' = << >>
    /\ response' = NoResponse
    /\ e' = None
    /\ page' = << >>
    /\ prev' = Outcome
    /\ earlier' = earlier \cup {Outcome}
    /\ UNCHANGED secrets

\* The page is loaded again or rerun; possible also after st.stop().
Rerun ==
    /\ pc \in {"done", "stopped"}
    /\ StartRun(uploaded_file, target_vibe, FALSE)

\* The user picks a file in the uploader (the widget exists once the form ran).
Upload ==
    /\ pc = "done"
    /\ \E f \in Files :
          /\ f # uploaded_file
          /\ StartRun(f, target_vibe, FALSE)

\* The user removes the uploaded file.
RemoveFile ==
    /\ pc = "done"
    /\ uploaded_file # None
    /\ StartRun(None, target_vibe, FALSE)

\* The user edits the target-vibe field.
EditVibe ==
    /\ pc = "done"
    /\ \E v \in Vibes :
          /\ v # target_vibe
          /\ StartRun(uploaded_file, v, FALSE)

\* The user presses "Execute Analysis".
PressButton ==
    /\ pc = "done"
    /\ StartRun(uploaded_file, target_vibe, TRUE)

Next ==
    \/ Configure
    \/ ModelInit
    \/ Form
    \/ OpenImage
    \/ GenerateContent
    \/ RenderResponse
    \/ Rerun
    \/ Upload
    \/ RemoveFile
    \/ EditVibe
    \/ PressButton

Spec == Init /\ [][Next]_vars

TypeOK ==
    /\ secrets \in BOOLEAN
    /\ uploaded_file \in Files \cup {None}
    /\ target_vibe \in Vibes
    /\ button \in BOOLEAN
    /\ pc \in {"config", "model", "form", "open", "call", "render", "done", "stopped"}
    /\ model \in {None, ModelName}
    /\ form \in BOOLEAN
    /\ img \in Files \cup {None}
    /\ Len(requests) \in 0..1
    /\ prev \in {"none", "halted", "idle", "warning", "success",
                 "remote_failure", "local_failure"}
    /\ earlier \subseteq {"halted", "idle", "warning", "success",
                          "remote_failure", "local_failure"}

----------------------------------------------------------------------------
(* Properties.                                                             *)

\* s contains m as a substring.
Contains(s, m) ==
    \E i \in 1..(Len(s) - Len(m) + 1) : SubSeq(s, i, i + Len(m) - 1) = m

InRun == pc \in {"config", "model", "form", "open", "call", "render"}
RunStep == Configure \/ ModelInit \/ Form \/ OpenImage \/ GenerateContent \/ RenderResponse
Last == page[Len(page)]

\* C1: a run triggered by the button while no file is uploaded issues no
\* generate_content call, never enters the try block, and ends with the
\* MissingInput warning as its last rendered element (and no result or error),
\* for every target-vibe value and after any earlier runs.
C1_NoFileNoCallWarning ==
    (button /\ uploaded_file = None) =>
        /\ requests = << >>
        /\ pc \notin {"open", "call", "render"}
        /\ pc = "done" =>
              /\ Last = [fn |-> "warning", at |-> 61, body |-> MissingInputText]
              /\ ~ResultShown
              /\ Elements("error") = {}

C1_Witness ==
    /\ pc = "done" /\ button /\ uploaded_file = None
    /\ WarningShown
    /\ target_vibe = ""
    /\ "remote_failure" \in earlier

\* C2: when GOOGLE_API_KEY is absent the run renders the MissingCredential
\* error and halts: the model is never constructed, the form is never
\* evaluated, the button never reads True and no remote call is issued.
C2_MissingCredentialHalts ==
    ~secrets =>
        /\ model = None
        /\ ~form
        /\ ~button
        /\ requests = << >>
        /\ pc \in {"config", "stopped"}
        /\ pc = "stopped" =>
              page = << [fn |-> "error", at |-> 13, body |-> MissingCredentialText] >>

C2_Witness == ~secrets /\ pc = "stopped" /\ HaltShown /\ prev = "halted"

\* C3 as stated: a failure is caught and leaves the surface usable (the button
\* can be pressed again), and in a session where a remote call failed earlier,
\* every finished button-triggered run with a file present issued a fresh
\* remote call.
C3_Original ==
    /\ FailureShown => ENABLED PressButton
    /\ ("remote_failure" \in earlier /\ button /\ uploaded_file # None /\ pc = "done")
          => Len(requests) = 1

\* C3 amended: a failure is caught and leaves the surface usable (the button
\* can be pressed again), and in a session where a remote call failed earlier,
\* every finished button-triggered run with a file that Image.open accepts
\* issued exactly one fresh remote call, built from the current widget values;
\* a new run starts with nothing left of the failed one.
C3_RecoveryAfterFailure ==
    /\ FailureShown => ENABLED PressButton
    /\ ("remote_failure" \in earlier /\ button /\ pc = "done"
            /\ Kind(uploaded_file) \in {"image", "truncated"})
          => /\ Len(requests) = 1
             /\ requests[1].img = uploaded_file
             /\ Contains(requests[1].prompt, target_vibe)
    /\ pc = "config" => e = None /\ ~response.bound /\ requests = << >> /\ page = << >>

C3_Witness ==
    /\ prev = "remote_failure" /\ button /\ pc = "done"
    /\ ResultShown /\ ~FailureShown
    /\ Len(requests) = 1

\* C4: a finished triggered run whose remote call returned text issued exactly
\* one generate_content call, and the element rendered as the result (the last
\* one, made by line 56) carries the service's text unchanged; no error shows.
C4_OneCallVerbatimText ==
    (pc = "done" /\ response.bound /\ response.parts # << >>) =>
        /\ button
        /\ Len(requests) = 1
        /\ requests[1].img = uploaded_file
        /\ At(56) = {Len(page)}
        /\ Last.fn = "markdown"
        /\ Last.body = Join(response.parts)
        /\ Elements("error") = {}

C4_Witness ==
    /\ pc = "done" /\ ResultShown
    /\ Len(response.parts) = 2
    /\ Last.body = "# Concept\n1. [SPATIAL ANALYSIS]: ..."
    /\ target_vibe = "Cozy Minimal"

\* C5 as stated: the prompt sent is "Analyze the uploaded file. Target Vibe:
\* <target vibe>. Action Triggered: <action>", which for "Industrial Luxury"
\* and "Analyze Vibe" is the literal of the scenario.
C5_Original ==
    \A i \in 1..Len(requests) :
        /\ requests[i].prompt =
              "Analyze the uploaded file. Target Vibe: " \o target_vibe
                  \o ". Action Triggered: Analyze Vibe"
        /\ target_vibe = "Industrial Luxury" =>
              requests[i].prompt = "Analyze the uploaded file. Target Vibe: Industrial Luxury. Action Triggered: Analyze Vibe"

\* C5 amended: the prompt sent is the fixed template "Analyze this image.
\* Target Vibe: <target vibe>. Action: Initial Brand Concept." with only the
\* target vibe substituted (the action label is a literal of the template), so
\* the same target vibe always yields the same prompt; for "Industrial Luxury"
\* it is "Analyze this image. Target Vibe: Industrial Luxury. Action: Initial
\* Brand Concept.".
C5_PromptTemplate ==
    \A i \in 1..Len(requests) :
        /\ requests[i].prompt =
              "Analyze this image. Target Vibe: " \o target_vibe
                  \o ". Action: Initial Brand Concept."
        /\ prompt = requests[i].prompt
        /\ target_vibe = "Industrial Luxury" =>
              requests[i].prompt = "Analyze this image. Target Vibe: Industrial Luxury. Action: Initial Brand Concept."

C5_Witness ==
    /\ Len(requests) = 1
    /\ Kind(requests[1].img) = "image"
    /\ requests[1].prompt = "Analyze this image. Target Vibe: Cozy Minimal. Action: Initial Brand Concept."

\* C6: when the remote call of a run raised with message m, an error banner
\* containing m is rendered and no result text is rendered in that run; the
\* result text and an error banner are never both on the page of one run.
C6_FailureBannerCarriesMessage ==
    /\ (requests # << >> /\ ~response.bound /\ e # None) =>
          /\ \E i \in Elements("error") : Contains(page[i].body, e)
          /\ ~ResultShown
    /\ ~(ResultShown /\ Elements("error") # {})

C6_Witness ==
    /\ pc = "done" /\ requests # << >>
    /\ e = "quota exceeded"
    /\ Last = [fn |-> "error", at |-> 59, body |-> "Sistem Error: quota exceeded"]

\* C7: whenever generate_content has been invoked in a run, uploaded_file is
\* not None and the target-vibe text is non-empty.
C7_Original ==
    requests # << >> => (uploaded_file # None /\ target_vibe # "")

\* C8: a run issues at most one remote call; once an exception was caught the
\* run is over (no retry state); a run in progress can always take its next
\* step; and a finished triggered run with a file present shows either the
\* result text or the failure banner, never both and never neither.
C8_LinearRunNoRetry ==
    /\ Len(requests) <= 1
    /\ e # None => pc = "done"
    /\ InRun => ENABLED RunStep
    /\ (pc = "done" /\ button /\ uploaded_file # None) =>
          (ResultShown /\ ~FailureShown) \/ (FailureShown /\ ~ResultShown)

C8_Witness ==
    /\ pc = "done" /\ button
    /\ Len(requests) = 1
    /\ e = "503 service unavailable"
    /\ FailureShown /\ ~ResultShown

\* C9 as stated: every finished triggered run with a file present forwarded
\* that file in a remote call (no local check prevents the call).
C9_Original ==
    (pc = "done" /\ button /\ uploaded_file # None) =>
        /\ Len(requests) = 1
        /\ requests[1].img = uploaded_file

\* C9 amended: every finished triggered run with a file present that
\* Image.open accepts forwarded that file in exactly one remote call, and a
\* damaged image Image.open accepted was rejected by the remote service
\* (failure banner with the service's message); a file Image.open cannot
\* identify is rejected locally: the failure banner shows Image.open's message
\* and no remote call is issued.
C9_LocalCheckIsImageOpenOnly ==
    (pc = "done" /\ button /\ uploaded_file # None) =>
        IF Kind(uploaded_file) = "unidentified"
        THEN /\ requests = << >>
             /\ Last = [fn |-> "error", at |-> 59,
                        body |-> "Sistem Error: cannot identify image file"]
        ELSE /\ Len(requests) = 1
             /\ requests[1].img = uploaded_file
             /\ Kind(uploaded_file) = "truncated" =>
                   /\ FailureShown
                   /\ e = "400 unable to process input image"

C9_Witness ==
    /\ pc = "done" /\ button
    /\ Kind(uploaded_file) = "truncated"
    /\ Len(requests) = 1
    /\ FailureShown

\* C10 as stated: in a run not caused by the button, no remote call is issued
\* and no result, no error and no warning is rendered.
C10_Original ==
    ~button =>
        /\ requests = << >>
        /\ ~ResultShown
        /\ Elements("error") = {}
        /\ Elements("warning") = {}

\* C10 amended: in a run not caused by the button, no remote call is issued,
\* the try block is never entered, and no result, no remote-call failure banner
\* and no MissingInput warning is rendered, whatever earlier runs did; the only
\* error such a run can render is the MissingCredential error, and only when
\* the credential is absent.
C10_OnlyButtonRunsCall ==
    ~button =>
        /\ requests = << >>
        /\ pc \notin {"open", "call", "render"}
        /\ ~ResultShown
        /\ ~FailureShown
        /\ Elements("warning") = {}
        /\ \A i \in Elements("error") :
              ~secrets /\ page[i] = [fn |-> "error", at |-> 13, body |-> MissingCredentialText]

C10_Witness ==
    /\ ~button /\ pc = "done"
    /\ prev = "success"
    /\ uploaded_file # None
    /\ "remote_failure" \in earlier

====
